---------------------------- MODULE Spec2Model ----------------------------
(***************************************************************************)
(* Model of the kubernetes_deployment and kubernetes_role resources of     *)
(* terraform-provider-kubernetes:                                          *)
(*   - the schema state upgrader of the deployment resource                *)
(*     (resourceKubernetesDeploymentStateUpgrader, migrateStateV0toV1,     *)
(*     migrateStateV1toV2), specification SpecMigrate;                     *)
(*   - the lifecycle operations of the deployment and role resources,      *)
(*     specification Spec;                                                 *)
(*   - the patches of the deployment's Update, specification SpecUpdate.   *)
(* Attribute keys are Go strings and are modelled as TLA+ strings; the     *)
(* string functions of package strings are computed character by           *)
(* character.                                                              *)
(***************************************************************************)
EXTENDS Integers, Sequences, FiniteSets, TLC

VARIABLES
    is,         \* the *terraform.InstanceState handed to the state upgrader
    migCall,    \* the upgrader call made on it, if any (history)
    resource,   \* the type of the resource instance the operations are on
    id,         \* d.Id() of that instance
    d,          \* its configuration in the ResourceData: metadata and spec
    deployment, \* the Deployment object held by the API server
    role,       \* whether the API server holds the Role object
    op,         \* the deployment operation in progress, "idle" when none
    pc,         \* where that operation stands
    elapsed,    \* polling intervals spent in the current resource.Retry
    target,     \* the namespace and name that operation addresses
    calls,      \* the API calls of the last operation, in order (history)
    ret         \* what the last operation returned

migVars  == <<is, migCall>>
lifeVars == <<resource, id, d, deployment, role, op, pc, elapsed, target,
              calls, ret>>
vars     == <<is, migCall, resource, id, d, deployment, role, op, pc, elapsed,
              target, calls, ret>>

-----------------------------------------------------------------------------
(* Bounds of the model *)

\* attributes a persisted record holds besides "id"
MaxAttrs == 2

\* the largest schema version handed to the upgrader
MaxVersion == 3

\* the largest replica count of a deployment
MaxReplicas == 2

\* polling intervals that fit in the timeout of one resource.Retry
MaxPolls == 2

-----------------------------------------------------------------------------
(* Go strings and maps *)

\* strings.HasPrefix(k, p)
HasPrefix(k, p) ==
    /\ Len(k) >= Len(p)
    /\ SubSeq(k, 1, Len(p)) = p

\* the start of the first occurrence of old in k, 0 when there is none
\* (strings.Index)
Index(k, old) ==
    LET hits == {i \in 1..(Len(k) - Len(old) + 1) :
                    SubSeq(k, i, i + Len(old) - 1) = old}
    IN  IF hits = {} THEN 0
        ELSE CHOOSE i \in hits : \A j \in hits : i <= j

\* strings.Replace(k, old, new, 1): the first occurrence of old replaced
ReplaceFirst(k, old, new) ==
    LET i == Index(k, old)
    IN  IF i = 0 THEN k
        ELSE SubSeq(k, 1, i - 1) \o new \o SubSeq(k, i + Len(old), Len(k))

\* a map without entries
NoAttrs == [k \in {} |-> ""]

\* m[k] = v
MapSet(m, k, v) == [x \in DOMAIN m \cup {k} |-> IF x = k THEN v ELSE m[x]]

MapDelete_Noop(m, k) == m

\* delete(m, k)
MapDelete(m, k) == [x \in DOMAIN m \ {k} |-> m[x]]

\* every order in which range can visit the keys of a map
RECURSIVE Orders(_)
Orders(S) ==
    IF S = {} THEN {<< >>}
    ELSE UNION {{<<x>> \o p : p \in Orders(S \ {x})} : x \in S}

-----------------------------------------------------------------------------
(* The persisted records handed to the state upgrader *)

\* the schema version of the resource (SchemaVersion: 2)
SchemaVersion == 2

\* the greatest version a case of the upgrader's switch migrates from
LatestStep == 1

Nil == "nil"
UnexpectedSchemaVersion == "Unexpected schema version"

RecordID == "default/web"

AttrKeys ==
    { "name", "namespace", "metadata.0.name",
      "spec.0.template.#",
      "spec.0.template.0.container.0.image",
      "spec.0.template.0.spec.0.container.0.image",
      "spec.0.template.0.metadata.0.name",
      "spec.0.paused", "spec.0.progress_deadline_seconds" }

AttrValues == {"web", "api"}

\* the record of a resource that was never created: no ID, no attributes
EmptyState == [ID |-> "", Attributes |-> NoAttrs]

\* A stored resource has an ID, its "id" attribute and up to MaxAttrs others.
StoredStates ==
    { [ID |-> RecordID, Attributes |-> a] :
        a \in UNION { { f \in [S \cup {"id"} -> AttrValues \cup {RecordID}] :
                          /\ f["id"] = RecordID
                          /\ \A k \in S : f[k] \in AttrValues } :
                      S \in {T \in SUBSET AttrKeys : Cardinality(T) <= MaxAttrs} } }

\* the versions the upgrader is called with: the framework stamps records
\* with a SchemaVersion, which is never negative
Versions == 0..MaxVersion

IsEmpty_Never(rec) == FALSE

\* (*InstanceState).Empty(): no attribute map and no ID
IsEmpty(rec) == rec.Attributes = NoAttrs /\ rec.ID = ""

-----------------------------------------------------------------------------
(* migrateStateV0toV1 *)

NameDestinationHeld_Never(A) == FALSE

\* _, ok := is.Attributes["metadata.0.name"]
NameDestinationHeld(A) == "metadata.0.name" \in DOMAIN A

\* One iteration of the range loop, on key k of is.Attributes; st holds
\* is.Attributes and newTemplate.
VisitAttribute(st, k) ==
    LET A == st.Attributes
        v == A[k]
    IN  IF HasPrefix(k, "name") THEN
            IF NameDestinationHeld(A) THEN st
            ELSE [Attributes  |-> MapDelete(A, k),
                  newTemplate |-> MapSet(st.newTemplate, "metadata.0.name", v)]
        ELSE IF ~HasPrefix(k, "spec.0.template") THEN st
        ELSE IF \/ HasPrefix(k, "spec.0.template.0.spec")
                \/ HasPrefix(k, "spec.0.template.0.metadata") THEN st
        ELSE LET newK == ReplaceFirst(k, "spec.0.template.0",
                                         "spec.0.template.0.spec.0")
             IN  [Attributes  |-> MapDelete(A, k),
                  newTemplate |-> MapSet(st.newTemplate, newK, v)]

\* The range loop, visiting the keys in the given order.
RECURSIVE RangeAttributes(_, _)
RangeAttributes(st, order) ==
    IF order = << >> THEN st
    ELSE RangeAttributes(VisitAttribute(st, Head(order)), Tail(order))

\* for k, v := range newTemplate { is.Attributes[k] = v }
CopyNewTemplate(A, newTemplate) ==
    [x \in DOMAIN A \cup DOMAIN newTemplate |->
        IF x \in DOMAIN newTemplate THEN newTemplate[x] ELSE A[x]]

migrateStateV0toV1(rec, order) ==
    LET st == RangeAttributes([Attributes |-> rec.Attributes,
                               newTemplate |-> NoAttrs], order)
    IN  [is  |-> [rec EXCEPT !.Attributes =
                      CopyNewTemplate(st.Attributes, st.newTemplate)],
         err |-> Nil]

(* migrateStateV1toV2 *)
migrateStateV1toV2(rec) ==
    [is  |-> [rec EXCEPT !.Attributes =
                  MapSet(MapSet(rec.Attributes, "spec.0.paused", "false"),
                         "spec.0.progress_deadline_seconds", "600")],
     err |-> Nil]

-----------------------------------------------------------------------------
(* resourceKubernetesDeploymentStateUpgrader *)

StepOf_LatestAsCase1(v) ==
    CASE v = 0 -> "V0toV1"
      [] v = 1 \/ v = 2 -> "V1toV2"
      [] OTHER -> "default"

StepOf_DefaultSilent(v) ==
    CASE v = 0 -> "V0toV1"
      [] v = 1 -> "V1toV2"
      [] OTHER -> "return"

\* the case of "switch v" taken for version v
StepOf(v) ==
    CASE v = 0 -> "V0toV1"
      [] v = 1 -> "V1toV2"
      [] OTHER -> "default"

resourceKubernetesDeploymentStateUpgrader(v, rec, order) ==
    IF IsEmpty(rec) THEN [is |-> rec, err |-> Nil]
    ELSE CASE StepOf(v) = "V0toV1"  -> migrateStateV0toV1(rec, order)
           [] StepOf(v) = "V1toV2"  -> migrateStateV1toV2(rec)
           [] StepOf(v) = "default" -> [is |-> rec, err |-> UnexpectedSchemaVersion]
           [] OTHER                 -> [is |-> rec, err |-> Nil]

\* The orders in which the call can visit the attributes: only the V0toV1
\* step ranges over the map.
RangeOrders(v, rec) ==
    IF ~IsEmpty(rec) /\ StepOf(v) = "V0toV1"
    THEN Orders(DOMAIN rec.Attributes)
    ELSE {<< >>}

NoCall == [done |-> FALSE, v |-> 0, before |-> EmptyState, err |-> Nil]

\* The framework calls MigrateState once on a loaded record; the record is
\* changed in place and returned.
MigrateState(v, order) ==
    /\ UNCHANGED lifeVars
    /\ ~migCall.done
    /\ LET r == resourceKubernetesDeploymentStateUpgrader(v, is, order)
       IN  /\ is' = r.is
           /\ migCall' = [done |-> TRUE, v |-> v, before |-> is, err |-> r.err]

-----------------------------------------------------------------------------
(* Errors, identities and the objects of the API server *)

NilErr == [kind |-> "nil", code |-> 0, msg |-> ""]

\* a *errors.StatusError with ErrStatus.Code = code
StatusError(code) == [kind |-> "StatusError", code |-> code, msg |-> ""]

\* an error of the transport, not a *errors.StatusError
TransportError == [kind |-> "error", code |-> 0, msg |-> "connection refused"]

\* fmt.Errorf(msg, ...)
Errorf(msg) == [kind |-> "error", code |-> 0, msg |-> msg]

\* strings.Split(s, sep)
RECURSIVE Split(_, _)
Split(s, sep) ==
    LET i == Index(s, sep)
    IN  IF i = 0 THEN <<s>>
        ELSE <<SubSeq(s, 1, i - 1)>> \o Split(SubSeq(s, i + Len(sep), Len(s)), sep)

\* buildId(meta): namespace "/" name
buildId(meta) == meta.namespace \o "/" \o meta.name

\* idParts(id): the namespace and name of an identity, an error unless the
\* identity has exactly two parts
idParts(i) ==
    LET parts == Split(i, "/")
    IN  IF Len(parts) # 2
        THEN [namespace |-> "", name |-> "", err |-> Errorf("Unexpected ID format")]
        ELSE [namespace |-> parts[1], name |-> parts[2], err |-> NilErr]

NoDeployment ==
    [exists |-> FALSE, namespace |-> "", name |-> "", replicas |-> 0, status |-> 0]

NoTarget == [namespace |-> "", name |-> ""]

DeploymentKey == [namespace |-> "default", name |-> "web"]
RoleKey       == [namespace |-> "default", name |-> "admin"]

\* identities a user can hand to the importer: well formed or not
ImportIds == {"default/web", "web"}
RoleIds   == {"default/admin", "admin"}

\* the patch operations
ReplaceOperation(path, value) == [op |-> "replace", path |-> path, value |-> value]
AddOperation(path, value)     == [op |-> "add", path |-> path, value |-> value]
RemoveOperation(path)         == [op |-> "remove", path |-> path]

\* the labels a configuration can declare in its metadata
LabelKeys   == <<"app", "tier">>
LabelValues == {"web"}
LabelSets ==
    UNION { [S -> LabelValues] :
              S \in SUBSET {LabelKeys[i] : i \in 1..Len(LabelKeys)} }

\* the API server applying a JSON patch to the deployment it holds
RECURSIVE ApplyPatch(_, _)
ApplyPatch(obj, ops) ==
    IF ops = << >> THEN obj
    ELSE LET o == Head(ops)
             next == IF o.path = "/spec/replicas"
                        THEN [obj EXCEPT !.replicas = o.value]
                     ELSE IF o.path = "/spec"
                        THEN [obj EXCEPT !.replicas = o.value.replicas]
                     ELSE obj
         IN  ApplyPatch(next, Tail(ops))

\* whether the API server holds the deployment namespace/name
Found(namespace, name) ==
    /\ deployment.exists
    /\ deployment.namespace = namespace
    /\ deployment.name = name

\* The errors a call can return: 404 only for an object that is not there.
\* A call fails without effect on the object.
CallErrors(found) ==
    IF found THEN {TransportError, StatusError(403)}
    ELSE {StatusError(404), TransportError, StatusError(403)}

\* Deployments(namespace).Get(name): the object, or an error
GetOutcomes(namespace, name) ==
    LET found == Found(namespace, name)
    IN  {[err |-> e, obj |-> NoDeployment] : e \in CallErrors(found)}
        \cup (IF found THEN {[err |-> NilErr, obj |-> deployment]} ELSE {})

\* Deployments(namespace).Create(obj): refused when the object is there
CreateOutcomes(obj) ==
    {[err |-> e, obj |-> NoDeployment] :
        e \in IF deployment.exists THEN {StatusError(409)}
              ELSE {TransportError, StatusError(403)}}
    \cup (IF deployment.exists THEN {} ELSE {[err |-> NilErr, obj |-> obj]})

\* Deployments(namespace).Patch(name, JSONPatchType, ops)
PatchOutcomes(namespace, name, ops) ==
    LET found == Found(namespace, name)
    IN  {[err |-> e, obj |-> NoDeployment] : e \in CallErrors(found)}
        \cup (IF found THEN {[err |-> NilErr, obj |-> ApplyPatch(deployment, ops)]}
              ELSE {})

\* Deployments(namespace).Delete(name, foreground)
DeleteOutcomes(namespace, name) ==
    LET found == Found(namespace, name)
    IN  CallErrors(found) \cup (IF found THEN {NilErr} ELSE {})

\* Roles(namespace).Get(name) and Roles(namespace).Delete(name)
RoleOutcomes(namespace, name) ==
    LET found == role /\ namespace = RoleKey.namespace /\ name = RoleKey.name
    IN  CallErrors(found) \cup (IF found THEN {NilErr} ELSE {})

\* an entry of the call log
Call(api, by, namespace, name, err, obj, ops) ==
    [api |-> api, by |-> by, namespace |-> namespace, name |-> name,
     err |-> err, observed |-> obj.status, desired |-> obj.replicas, ops |-> ops]

NoReturn == [op |-> "none", done |-> FALSE, err |-> NilErr, exists |-> FALSE]

Running(name) == [op |-> name, done |-> FALSE, err |-> NilErr, exists |-> FALSE]

Returned(name, err) == [op |-> name, done |-> TRUE, err |-> err, exists |-> FALSE]

-----------------------------------------------------------------------------
(* The deployment resource *)

\* the operation returns err: nothing of it is left in progress
Return(name, err) ==
    /\ ret' = Returned(name, err)
    /\ op' = "idle"
    /\ pc' = "idle"
    /\ target' = NoTarget
    /\ elapsed' = 0

\* the ResourceData after d.Set("metadata", ...) and d.Set("spec", ...); the
\* labels the configuration declares are kept by reconcileTopLevelLabels
Flatten(obj, prior) ==
    [metadata |-> [namespace |-> obj.namespace, name |-> obj.name,
                   labels |-> prior.metadata.labels],
     spec     |-> [replicas |-> obj.replicas, ok |-> TRUE]]

CreateFailed_Never(err) == FALSE

\* if err != nil, after the Create call
CreateFailed(err) == err # NilErr

\* resourceKubernetesDeploymentCreate, up to the convergence wait
resourceKubernetesDeploymentCreate ==
    /\ UNCHANGED migVars
    /\ op = "idle"
    /\ resource = "kubernetes_deployment"
    /\ id = ""
    /\ UNCHANGED <<resource, d, role>>
    /\ IF ~d.spec.ok
       THEN \* expandDeploymentSpec fails
            /\ calls' = << >>
            /\ Return("Create", Errorf("expandDeploymentSpec"))
            /\ UNCHANGED <<id, deployment>>
       ELSE LET namespace == IF d.metadata.namespace = "" THEN "default"
                             ELSE d.metadata.namespace
                obj == [exists |-> TRUE, namespace |-> namespace,
                        name |-> d.metadata.name,
                        replicas |-> d.spec.replicas, status |-> 0]
            IN  \E o \in CreateOutcomes(obj) :
                  /\ calls' = <<Call("Create", "create", namespace, obj.name,
                                     o.err, o.obj, << >>)>>
                  /\ IF CreateFailed(o.err)
                     THEN /\ Return("Create", Errorf("Failed to create deployment"))
                          /\ UNCHANGED <<id, deployment>>
                     ELSE /\ deployment' = o.obj
                          /\ id' = buildId(o.obj)
                          /\ ret' = Running("Create")
                          /\ op' = "Create"
                          /\ pc' = "wait"
                          /\ target' = [namespace |-> o.obj.namespace,
                                        name |-> o.obj.name]
                          /\ elapsed' = 0

IsConverged_Always(obj) == TRUE

\* deployment.Status.Replicas == desiredReplicas
IsConverged(obj) == obj.status = obj.replicas

RetryFunc_ErrorRetryable(o) ==
    IF o.err = NilErr /\ IsConverged(o.obj) THEN [kind |-> "nil", err |-> NilErr]
    ELSE [kind |-> "retryable", err |-> Errorf("Waiting for replicas to be scheduled")]

RetryFunc_ConvergedRetried(o) ==
    IF o.err # NilErr THEN [kind |-> "nonretryable", err |-> o.err]
    ELSE [kind |-> "retryable", err |-> Errorf("Waiting for replicas to be scheduled")]

RetryFunc_AllRetryable(o) ==
    [kind |-> "retryable", err |-> Errorf("Waiting for replicas to be scheduled")]

\* The function waitForDeploymentReplicasFunc returns, on the outcome o of
\* its Get: nil, a retryable error or a non-retryable one.
RetryFunc(o) ==
    IF o.err # NilErr THEN [kind |-> "nonretryable", err |-> o.err]
    ELSE IF IsConverged(o.obj) THEN [kind |-> "nil", err |-> NilErr]
    ELSE [kind |-> "retryable", err |-> Errorf("Waiting for replicas to be scheduled")]

AfterPatch_DeleteSkipsWait(name) == IF name = "Delete" THEN "delete" ELSE "wait"

\* what follows the successful patch of Update and of Delete: the
\* convergence wait
AfterPatch(name) == "wait"

\* what follows the convergence wait in each operation
AfterWait(name) == IF name = "Delete" THEN "delete" ELSE "read"

TimedOut_Never(n) == FALSE

\* The timeout of resource.Retry has passed at the end of the polling
\* interval that follows poll n + 1: the timeout covers MaxPolls polls.
TimedOut(n) == n + 1 >= MaxPolls

\* One poll of resource.Retry(timeout, waitForDeploymentReplicasFunc(...)):
\* nil ends the wait, a non-retryable error ends the operation, a retryable
\* one is retried after a polling interval until the timeout has passed,
\* when Retry returns the last error.
waitForDeploymentReplicasFunc ==
    /\ UNCHANGED migVars
    /\ op \in {"Create", "Update", "Delete"}
    /\ pc = "wait"
    /\ UNCHANGED <<resource, id, d, role, deployment>>
    /\ \E o \in GetOutcomes(target.namespace, target.name) :
         LET r == RetryFunc(o)
         IN  /\ calls' = Append(calls, Call("Get", "wait", target.namespace,
                                            target.name, o.err, o.obj, << >>))
             /\ IF r.kind = "nonretryable" THEN Return(op, r.err)
                ELSE IF r.kind = "nil"
                THEN /\ pc' = AfterWait(op)
                     /\ UNCHANGED <<op, ret, target, elapsed>>
                ELSE IF TimedOut(elapsed) THEN Return(op, r.err)
                ELSE /\ elapsed' = elapsed + 1
                     /\ UNCHANGED <<op, pc, ret, target>>

ReadData_FlattenAlways(err, obj, prior) == Flatten(obj, prior)

\* the ResourceData after Read: it is set from the deployment only when the
\* Get succeeded (if err != nil { return err })
ReadData(err, obj, prior) ==
    IF err # NilErr THEN prior ELSE Flatten(obj, prior)

\* resourceKubernetesDeploymentRead, called by the framework or at the end
\* of Create and Update
resourceKubernetesDeploymentRead ==
    /\ UNCHANGED migVars
    /\ <<op, pc>> \in {<<"idle", "idle">>, <<"Create", "read">>, <<"Update", "read">>}
    /\ resource = "kubernetes_deployment"
    /\ id # ""
    /\ UNCHANGED <<resource, id, role, deployment>>
    /\ LET name == IF op = "idle" THEN "Read" ELSE op
           p == idParts(id)
       IN  \E o \in GetOutcomes(p.namespace, p.name) :
             /\ calls' = (IF op = "idle" THEN << >> ELSE calls) \o
                         <<Call("Get", "read", p.namespace, p.name, o.err,
                                o.obj, << >>)>>
             /\ d' = ReadData(o.err, o.obj, d)
             /\ Return(name, o.err)

\* the operation that takes the label k of the old metadata to the new one
LabelOp(old, new, k) ==
    LET path == "/metadata/labels/" \o k
    IN  IF k \notin DOMAIN old
        THEN (IF k \in DOMAIN new THEN <<AddOperation(path, new[k])>> ELSE << >>)
        ELSE IF k \notin DOMAIN new THEN <<RemoveOperation(path)>>
        ELSE IF old[k] # new[k] THEN <<ReplaceOperation(path, new[k])>>
        ELSE << >>

RECURSIVE LabelOps(_, _, _)
LabelOps(old, new, keys) ==
    IF keys = << >> THEN << >>
    ELSE LabelOp(old, new, Head(keys)) \o LabelOps(old, new, Tail(keys))

\* patchMetadata("metadata.0.", "/metadata/", d): the namespace and name of
\* the metadata cannot change; each label that changed yields one
\* operation under /metadata/
patchMetadata(old, new) == LabelOps(old.labels, new.labels, LabelKeys)

SpecOps_Always(hasChange, spec) == <<ReplaceOperation("/spec", spec)>>

\* if d.HasChange("spec") { ops = append(ops, &ReplaceOperation{"/spec", spec}) }
SpecOps(hasChange, spec) ==
    IF hasChange THEN <<ReplaceOperation("/spec", spec)>> ELSE << >>

\* resourceKubernetesDeploymentUpdate, up to the convergence wait; the
\* framework has put the new configuration, newSpec and newLabels, in d
resourceKubernetesDeploymentUpdate(newSpec, newLabels) ==
    /\ UNCHANGED migVars
    /\ op = "idle"
    /\ resource = "kubernetes_deployment"
    /\ id # ""
    /\ UNCHANGED <<resource, id, role>>
    /\ d' = [d EXCEPT !.spec = newSpec, !.metadata.labels = newLabels]
    /\ LET p == idParts(id)
           hasChange == newSpec # d.spec
       IN  IF hasChange /\ ~newSpec.ok
           THEN /\ calls' = << >>
                /\ Return("Update", Errorf("expandDeploymentSpec"))
                /\ UNCHANGED deployment
           ELSE LET ops == patchMetadata(d.metadata, d'.metadata) \o
                           SpecOps(hasChange, newSpec)
                IN  \E o \in PatchOutcomes(p.namespace, p.name, ops) :
                      /\ calls' = <<Call("Patch", "update", p.namespace, p.name,
                                         o.err, o.obj, ops)>>
                      /\ IF o.err # NilErr
                         THEN /\ Return("Update", Errorf("Failed to update deployment"))
                              /\ UNCHANGED deployment
                         ELSE /\ deployment' = o.obj
                              /\ ret' = Running("Update")
                              /\ op' = "Update"
                              /\ pc' = AfterPatch("Update")
                              /\ target' = [namespace |-> p.namespace, name |-> p.name]
                              /\ elapsed' = 0

\* resourceKubernetesDeploymentDelete, up to the convergence wait: the patch
\* that drains the replicas
resourceKubernetesDeploymentDelete ==
    /\ UNCHANGED migVars
    /\ op = "idle"
    /\ resource = "kubernetes_deployment"
    /\ id # ""
    /\ UNCHANGED <<resource, id, d, role>>
    /\ LET p == idParts(id)
           ops == <<ReplaceOperation("/spec/replicas", 0)>>
       IN  \E o \in PatchOutcomes(p.namespace, p.name, ops) :
             /\ calls' = <<Call("Patch", "drain", p.namespace, p.name, o.err,
                                o.obj, ops)>>
             /\ IF o.err # NilErr
                THEN /\ Return("Delete", o.err)
                     /\ UNCHANGED deployment
                ELSE /\ deployment' = o.obj
                     /\ ret' = Running("Delete")
                     /\ op' = "Delete"
                     /\ pc' = AfterPatch("Delete")
                     /\ target' = [namespace |-> p.namespace, name |-> p.name]
                     /\ elapsed' = 0

IdAfterDelete_Cleared(err, old) == ""

\* d.Id() after the Delete call: d.SetId("") is reached when the call
\* succeeded (if err != nil { return err })
IdAfterDelete(err, old) == IF err = NilErr THEN "" ELSE old

\* resourceKubernetesDeploymentDelete, after the convergence wait: the
\* Delete call and d.SetId("")
DeploymentDeleteCall ==
    /\ UNCHANGED migVars
    /\ op = "Delete"
    /\ pc = "delete"
    /\ UNCHANGED <<resource, d, role>>
    /\ \E e \in DeleteOutcomes(target.namespace, target.name) :
         /\ calls' = Append(calls, Call("Delete", "delete", target.namespace,
                                        target.name, e, NoDeployment, << >>))
         /\ deployment' = IF e = NilErr THEN NoDeployment ELSE deployment
         /\ id' = IdAfterDelete(e, id)
         /\ Return("Delete", e)

ExistsResult_AnyStatusError(err) ==
    IF err # NilErr /\ err.kind = "StatusError"
    THEN [exists |-> FALSE, err |-> NilErr]
    ELSE [exists |-> TRUE, err |-> err]

\* what resourceKubernetesDeploymentExists returns on the error of its Get
ExistsResult(err) ==
    IF err # NilErr /\ err.kind = "StatusError" /\ err.code = 404
    THEN [exists |-> FALSE, err |-> NilErr]
    ELSE [exists |-> TRUE, err |-> err]

resourceKubernetesDeploymentExists ==
    /\ UNCHANGED migVars
    /\ op = "idle"
    /\ resource = "kubernetes_deployment"
    /\ id # ""
    /\ UNCHANGED <<resource, id, d, role, deployment, op, pc, target, elapsed>>
    /\ LET p == idParts(id)
       IN  \E o \in GetOutcomes(p.namespace, p.name) :
             /\ calls' = <<Call("Get", "exists", p.namespace, p.name, o.err,
                                o.obj, << >>)>>
             /\ ret' = [op |-> "Exists", done |-> TRUE,
                        err |-> ExistsResult(o.err).err,
                        exists |-> ExistsResult(o.err).exists]

\* Importer: schema.ImportStatePassthrough stores the identity the user gives
ImportStatePassthrough(newId) ==
    /\ UNCHANGED migVars
    /\ op = "idle"
    /\ resource = "kubernetes_deployment"
    /\ id = ""
    /\ id' = newId
    /\ calls' = << >>
    /\ ret' = Returned("Import", NilErr)
    /\ UNCHANGED <<resource, d, role, deployment, op, pc, target, elapsed>>

\* The deployment controller of the cluster changes the number of replicas
\* it reports.  The spec of the deployment is written by the calls of this
\* resource only: no other writer of the object is assumed.
ControllerSync(n) ==
    /\ UNCHANGED migVars
    /\ deployment.exists
    /\ n # deployment.status
    /\ deployment' = [deployment EXCEPT !.status = n]
    /\ UNCHANGED <<resource, id, d, role, op, pc, target, elapsed, calls, ret>>

-----------------------------------------------------------------------------
(* The role resource *)

\* resourceKubernetesRoleCreate, resourceKubernetesRoleRead and
\* resourceKubernetesRoleUpdate return nil
RoleStub(name) ==
    /\ UNCHANGED migVars
    /\ op = "idle"
    /\ resource = "kubernetes_role"
    /\ calls' = << >>
    /\ ret' = Returned(name, NilErr)
    /\ UNCHANGED <<resource, id, d, role, deployment, op, pc, target, elapsed>>

resourceKubernetesRoleDelete ==
    /\ UNCHANGED migVars
    /\ op = "idle"
    /\ resource = "kubernetes_role"
    /\ id # ""
    /\ UNCHANGED <<resource, d, deployment, op, pc, target, elapsed>>
    /\ LET p == idParts(id)
       IN  IF p.err # NilErr
           THEN /\ calls' = << >>
                /\ ret' = Returned("RoleDelete", p.err)
                /\ UNCHANGED <<id, role>>
           ELSE \E e \in RoleOutcomes(p.namespace, p.name) :
                  /\ calls' = <<Call("RoleDelete", "delete", p.namespace, p.name,
                                     e, NoDeployment, << >>)>>
                  /\ role' = IF e = NilErr THEN FALSE ELSE role
                  /\ id' = IF e = NilErr THEN "" ELSE id
                  /\ ret' = Returned("RoleDelete", e)

\* what resourceKubernetesRoleExists returns on the error of its Get
RoleExistsResult(err) ==
    IF err # NilErr /\ err.kind = "StatusError" /\ err.code = 404
    THEN [exists |-> FALSE, err |-> NilErr]
    ELSE [exists |-> TRUE, err |-> err]

resourceKubernetesRoleExists ==
    /\ UNCHANGED migVars
    /\ op = "idle"
    /\ resource = "kubernetes_role"
    /\ id # ""
    /\ UNCHANGED <<resource, id, d, role, deployment, op, pc, target, elapsed>>
    /\ LET p == idParts(id)
       IN  IF p.err # NilErr
           THEN /\ calls' = << >>
                /\ ret' = [op |-> "RoleExists", done |-> TRUE, err |-> p.err,
                           exists |-> FALSE]
           ELSE \E e \in RoleOutcomes(p.namespace, p.name) :
                  /\ calls' = <<Call("RoleGet", "exists", p.namespace, p.name,
                                     e, NoDeployment, << >>)>>
                  /\ ret' = [op |-> "RoleExists", done |-> TRUE,
                             err |-> RoleExistsResult(e).err,
                             exists |-> RoleExistsResult(e).exists]

-----------------------------------------------------------------------------
(* The specifications *)

\* The specs of a configuration: those expandDeploymentSpec accepts, with
\* their replicas, and one it fails on, whose replicas are never read.
Specs ==
    {[replicas |-> n, ok |-> TRUE] : n \in 0..MaxReplicas}
        \cup {[replicas |-> 0, ok |-> FALSE]}

\* the configuration of a resource without spec
NoConfig == [metadata |-> [namespace |-> "", name |-> "web",
                           labels |-> NoAttrs],
             spec |-> [replicas |-> 0, ok |-> TRUE]]

\* A deployment instance starts without identity, with the configuration of
\* the user, and the cluster may hold the deployment already.
DeploymentInit ==
    /\ resource = "kubernetes_deployment"
    /\ id = ""
    /\ d \in [metadata : [namespace : {"", "default"}, name : {"web"},
                          labels : {NoAttrs}],
              spec : Specs]
    /\ deployment \in {NoDeployment,
                       [exists |-> TRUE, namespace |-> DeploymentKey.namespace,
                        name |-> DeploymentKey.name, replicas |-> 1, status |-> 1]}
    /\ role = FALSE

\* No operation of the role resource sets an identity: a role instance has
\* the identity its persisted state holds.
RoleInit ==
    /\ resource = "kubernetes_role"
    /\ id \in RoleIds
    /\ d = NoConfig
    /\ deployment = NoDeployment
    /\ role \in BOOLEAN

LifeInit ==
    /\ DeploymentInit \/ RoleInit
    /\ op = "idle"
    /\ pc = "idle"
    /\ elapsed = 0
    /\ target = NoTarget
    /\ calls = << >>
    /\ ret = NoReturn

Init ==
    /\ LifeInit
    /\ is = EmptyState
    /\ migCall = NoCall

Next ==
    \/ resourceKubernetesDeploymentCreate
    \/ waitForDeploymentReplicasFunc
    \/ resourceKubernetesDeploymentRead
    \/ \E newSpec \in Specs :
           resourceKubernetesDeploymentUpdate(newSpec, d.metadata.labels)
    \/ resourceKubernetesDeploymentDelete
    \/ DeploymentDeleteCall
    \/ resourceKubernetesDeploymentExists
    \/ \E newId \in ImportIds : ImportStatePassthrough(newId)
    \/ \E n \in 0..MaxReplicas : ControllerSync(n)
    \/ \E name \in {"RoleCreate", "RoleRead", "RoleUpdate"} : RoleStub(name)
    \/ resourceKubernetesRoleDelete
    \/ resourceKubernetesRoleExists

\* The lifecycle of an instance whose configuration keeps its labels; the
\* changes of the labels are those of SpecUpdate.
Spec == Init /\ [][Next]_vars

\* A deployment instance that was created, with the labels of its
\* configuration.
UpdateInit ==
    /\ resource = "kubernetes_deployment"
    /\ id = buildId(DeploymentKey)
    /\ deployment = [exists |-> TRUE, namespace |-> DeploymentKey.namespace,
                     name |-> DeploymentKey.name, replicas |-> 1, status |-> 1]
    /\ d \in {[metadata |-> [namespace |-> DeploymentKey.namespace,
                             name |-> DeploymentKey.name, labels |-> l],
                spec |-> [replicas |-> 1, ok |-> TRUE]] : l \in LabelSets}
    /\ role = FALSE
    /\ op = "idle"
    /\ pc = "idle"
    /\ elapsed = 0
    /\ target = NoTarget
    /\ calls = << >>
    /\ ret = NoReturn
    /\ is = EmptyState
    /\ migCall = NoCall

\* The updates of that instance, of its spec and of its labels; the
\* controller brings the replicas to the number the spec asks for.
UpdateNext ==
    \/ \E newSpec \in Specs : \E newLabels \in LabelSets :
           resourceKubernetesDeploymentUpdate(newSpec, newLabels)
    \/ waitForDeploymentReplicasFunc
    \/ resourceKubernetesDeploymentRead
    \/ ControllerSync(deployment.replicas)

SpecUpdate == UpdateInit /\ [][UpdateNext]_vars

MigrateInit ==
    /\ is \in StoredStates \cup {EmptyState}
    /\ migCall = NoCall
    /\ resource = "kubernetes_deployment"
    /\ id = ""
    /\ d = NoConfig
    /\ deployment = NoDeployment
    /\ role = FALSE
    /\ op = "idle"
    /\ pc = "idle"
    /\ elapsed = 0
    /\ target = NoTarget
    /\ calls = << >>
    /\ ret = NoReturn

MigrateNext ==
    \E v \in Versions : \E order \in RangeOrders(v, is) : MigrateState(v, order)

SpecMigrate == MigrateInit /\ [][MigrateNext]_vars

-----------------------------------------------------------------------------
(* Properties of the lifecycle operations, checked under Spec *)

\* call i of the log is a successful convergence poll that saw the replica
\* count n
PollSaw(i, n) ==
    /\ calls[i].api = "Get"
    /\ calls[i].by = "wait"
    /\ calls[i].err = NilErr
    /\ calls[i].observed = n

\* call i of the log is the patch that replaces /spec/replicas with 0, and
\* it succeeded
DrainPatched(i) ==
    /\ calls[i].api = "Patch"
    /\ calls[i].err = NilErr
    /\ Len(calls[i].ops) = 1
    /\ calls[i].ops[1].op = "replace"
    /\ calls[i].ops[1].path = "/spec/replicas"
    /\ calls[i].ops[1].value = 0

\* C1: The deployment Delete operation issues its Delete call only after the
\* patch replacing /spec/replicas with 0 has succeeded and a later
\* convergence poll has observed a replica count of 0.
C1_DeleteAfterDrain ==
    \A i \in 1..Len(calls) :
        calls[i].api = "Delete" =>
            \E j \in 1..(i - 1) : \E k \in (j + 1)..(i - 1) :
                DrainPatched(j) /\ PollSaw(k, 0)

\* Delete has returned nil after a poll that was not converged, the
\* converged poll and the Delete call.
C1_Witness ==
    /\ ret = Returned("Delete", NilErr)
    /\ Len(calls) = 4
    /\ calls[2].observed # 0
    /\ calls[4].api = "Delete"

\* call i of the log is the mutating call of the operation name, and it
\* succeeded
Mutated(name, i) ==
    /\ calls[i].api = (IF name = "Create" THEN "Create" ELSE "Patch")
    /\ calls[i].err = NilErr

\* C2: Deployment Create and Update return without error only if, after
\* their mutating call succeeded, a convergence poll observed a replica
\* count equal to the desired one; the final Read comes only after that
\* poll.
C2_ReturnsOnlyConverged ==
    ret.op \in {"Create", "Update"} =>
        /\ (ret.done /\ ret.err = NilErr) =>
               \E j \in 1..Len(calls) : \E k \in (j + 1)..Len(calls) :
                   /\ Mutated(ret.op, j)
                   /\ PollSaw(k, calls[k].desired)
        /\ \A l \in 1..Len(calls) :
               calls[l].by = "read" =>
                   \E j \in 1..(l - 1) : \E k \in (j + 1)..(l - 1) :
                       /\ Mutated(ret.op, j)
                       /\ PollSaw(k, calls[k].desired)

\* Create has returned nil after a poll that was not converged, a converged
\* one and the Read.
C2_Witness ==
    /\ ret = Returned("Create", NilErr)
    /\ Len(calls) = 4
    /\ calls[2].observed # calls[2].desired
    /\ calls[4].by = "read"

\* C3: Exists of the deployment and of the role returns (false, nil) when
\* its Get fails with a status error of code 404, (true, that error) when
\* the Get fails with any other error, and (true, nil) when the Get
\* succeeds.
C3_ExistsSemantics ==
    (ret.done /\ ret.op \in {"Exists", "RoleExists"} /\ calls # << >>) =>
        LET e == calls[1].err
            notFound == e.kind = "StatusError" /\ e.code = 404
        IN  /\ notFound => (~ret.exists /\ ret.err = NilErr)
            /\ (e # NilErr /\ ~notFound) => (ret.exists /\ ret.err = e)
            /\ e = NilErr => (ret.exists /\ ret.err = NilErr)

\* Exists of the deployment has returned (true, err) for a status error
\* that is not 404.
C3_Witness ==
    /\ ret.done
    /\ ret.op = "Exists"
    /\ calls # << >>
    /\ calls[1].err = StatusError(403)
    /\ ret.exists
    /\ ret.err = StatusError(403)

\* C10: When a poll of the convergence wait fails, the wait and the
\* operation end at once with that error; no call follows a failed poll.
C10_FailedPollEndsWait ==
    \A i \in 1..Len(calls) :
        (calls[i].by = "wait" /\ calls[i].err # NilErr) =>
            /\ i = Len(calls)
            /\ op = "idle"
            /\ ret.done
            /\ ret.err = calls[i].err

\* The second poll of a wait failed, with polling intervals left, and the
\* operation returned the error.
C10_Witness ==
    /\ ret.done
    /\ ret.op = "Create"
    /\ Len(calls) = 3
    /\ calls[2].by = "wait" /\ calls[2].err = NilErr
    /\ calls[3].by = "wait" /\ calls[3].err = TransportError
    /\ ret.err = TransportError

\* the polls of the convergence wait in the call log
WaitPolls == {i \in 1..Len(calls) : calls[i].by = "wait"}

\* the wait has polled, and every poll succeeded and saw a replica count
\* other than the desired one
NeverConverged ==
    /\ WaitPolls # {}
    /\ \A i \in WaitPolls :
           calls[i].err = NilErr /\ calls[i].observed # calls[i].desired

\* C11: A convergence wait makes at most MaxPolls polls, the polls its
\* timeout covers; when every poll succeeds and none observes the desired
\* replica count, the wait goes on until the timeout and then ends the
\* operation with the error of waiting for replicas, and nothing that
\* follows a converged wait (the Read, the Delete call) ever happens.
C11_TimeoutEndsWait ==
    /\ Cardinality(WaitPolls) <= MaxPolls
    /\ NeverConverged =>
           /\ pc \notin {"read", "delete"}
           /\ \A i \in 1..Len(calls) : calls[i].by \notin {"read", "delete"}
           /\ IF Cardinality(WaitPolls) = MaxPolls
              THEN /\ op = "idle"
                   /\ ret.done
                   /\ ret.err = Errorf("Waiting for replicas to be scheduled")
              ELSE /\ pc = "wait"
                   /\ ~ret.done

\* Update has timed out: all the polls of its wait succeeded without the
\* desired replica count.
C11_Witness ==
    /\ ret.done
    /\ ret.op = "Update"
    /\ ret.err = Errorf("Waiting for replicas to be scheduled")
    /\ Cardinality(WaitPolls) = MaxPolls
    /\ NeverConverged

\* C12: The convergence wait ends with success at the first poll that
\* observes the desired replica count: every poll before it succeeded with
\* another count, no poll follows it, and the operation goes on to its next
\* step; k - 1 unequal polls and an equal one are exactly k polls.
C12_ConvergesAtFirstEqualPoll ==
    \A i \in WaitPolls :
        PollSaw(i, calls[i].desired) =>
            /\ \A j \in WaitPolls : j <= i
            /\ \A j \in WaitPolls :
                   j < i => /\ calls[j].err = NilErr
                            /\ calls[j].observed # calls[j].desired
            /\ pc # "wait"
            /\ Len(calls) > i \/ pc \in {"read", "delete"}

\* Update has returned nil after two polls, the first with another replica
\* count than the desired one, the second with the desired one.
C12_Witness ==
    /\ ret = Returned("Update", NilErr)
    /\ WaitPolls = {2, 3}
    /\ calls[2].err = NilErr
    /\ calls[2].observed # calls[2].desired
    /\ PollSaw(3, calls[3].desired)
    /\ calls[4].by = "read"

\* C13: Deployment Create stores the identity only after its Create call
\* has succeeded.  When the spec cannot be expanded (no call is made) or the
\* Create call fails, Create returns an error and the identity stays empty;
\* once the call has succeeded the identity is the key built from the
\* namespace and name of the returned object, and stays so when the
\* convergence wait fails or times out, in which case Create returns an
\* error.
C13_IdentityAfterCreate ==
    ret.op = "Create" =>
        IF calls = << >> \/ calls[1].err # NilErr
        THEN /\ ret.done
             /\ ret.err # NilErr
             /\ id = ""
        ELSE /\ id = buildId([namespace |-> calls[1].namespace,
                              name |-> calls[1].name])
             /\ (ret.done /\ \A i \in 1..Len(calls) : calls[i].by # "read") =>
                    ret.err # NilErr

\* The Create call succeeded for a configuration without namespace, a poll
\* of the wait failed, and Create returned the error with the identity set.
C13_Witness ==
    /\ ret = Returned("Create", TransportError)
    /\ calls[1].api = "Create"
    /\ calls[1].err = NilErr
    /\ d.metadata.namespace = ""
    /\ calls[Len(calls)].by = "wait"
    /\ id = "default/web"

\* the operations of a patch that target the path p
OpsAt(ops, p) == {i \in 1..Len(ops) : ops[i].path = p}

\* The step is an Update that submits a patch: it starts from no operation
\* in progress and logs the patch as its first call; the step of the
\* controller, which leaves the log of an earlier Update, changes the
\* replicas the deployment reports.
UpdatePatches ==
    /\ op = "idle"
    /\ deployment'.status = deployment.status
    /\ calls' # << >>
    /\ calls'[1].by = "update"

\* C14: The patch an Update submits holds exactly one operation at /spec,
\* a replace with the new spec, when the spec of the configuration changed,
\* and none when it did not; every other operation targets a path under
\* /metadata/, and no two operations of the patch target the same path.
C14_PatchOfUpdate ==
    [][UpdatePatches =>
         LET ops == calls'[1].ops
         IN  /\ calls'[1].api = "Patch"
             /\ Cardinality(OpsAt(ops, "/spec")) = (IF d'.spec # d.spec THEN 1 ELSE 0)
             /\ \A i \in OpsAt(ops, "/spec") :
                    ops[i] = ReplaceOperation("/spec", d'.spec)
             /\ \A i \in 1..Len(ops) :
                    ops[i].path # "/spec" => HasPrefix(ops[i].path, "/metadata/")
             /\ \A i, j \in 1..Len(ops) :
                    ops[i].path = ops[j].path => i = j]_vars

\* An Update changed a label and the spec: its patch holds an operation
\* under /metadata/ and the replace of /spec.
C14_Witness ==
    /\ ret.op = "Update"
    /\ calls # << >>
    /\ calls[1].by = "update"
    /\ Len(calls[1].ops) = 2
    /\ HasPrefix(calls[1].ops[1].path, "/metadata/")
    /\ calls[1].ops[2] = ReplaceOperation("/spec", d.spec)

\* the calls that change the objects of the API server
MutatingApis == {"Create", "Patch", "Delete", "RoleDelete"}

\* C16: In the call log of one operation no mutating call (Create, Patch,
\* Delete) is made twice and no call follows a call that failed, so that a
\* failed call is never issued again; the only call an operation makes more
\* than once from the same place is the Get of the convergence wait, and a
\* poll follows another one only when that one succeeded without observing
\* the desired replica count.
C16_NoRetryButPolling ==
    \A i, j \in 1..Len(calls) :
        i < j =>
            /\ calls[i].api \in MutatingApis => calls[j].api # calls[i].api
            /\ calls[i].err = NilErr
            /\ calls[i].by = calls[j].by => calls[i].by = "wait"
            /\ (calls[j].by = "wait" /\ calls[i].by = "wait") =>
                   calls[i].observed # calls[i].desired

\* Delete has made its patch, two polls and a Delete call that failed, and
\* returned that error.
C16_Witness ==
    /\ ret = Returned("Delete", StatusError(403))
    /\ Len(calls) = 4
    /\ calls[1].api = "Patch"
    /\ calls[2].by = "wait"
    /\ calls[3].by = "wait"
    /\ calls[4].api = "Delete"
    /\ calls[4].err = StatusError(403)

\* C17: A Read of the deployment never changes the identity; when its Get
\* fails, with a 404 or any other error, Read returns that error and leaves
\* the metadata and the spec of the configuration as they were.
C17_FailedReadKeepsData ==
    [][resourceKubernetesDeploymentRead =>
         LET get == calls'[Len(calls')]
         IN  /\ get.api = "Get"
             /\ id' = id
             /\ get.err # NilErr =>
                    /\ ret'.done
                    /\ ret'.err = get.err
                    /\ d' = d]_vars

\* A Read of a deployment that is gone returned the 404 of its Get; the
\* identity is still set.
C17_Witness ==
    /\ ret = Returned("Read", StatusError(404))
    /\ Len(calls) = 1
    /\ calls[1].by = "read"
    /\ calls[1].err = StatusError(404)
    /\ id = "default/web"
    /\ ~deployment.exists

\* the step is the import of an identity by the framework, which is none of
\* the operations of the resource
Imports == \E newId \in ImportIds : ImportStatePassthrough(newId)

\* C18: The operations of a resource change its identity in two places
\* only: deployment Create sets it, from empty, to the key of the object its
\* successful Create call returned, and Delete of a deployment or a role
\* clears it after its Delete call succeeded.  Every other step (Read,
\* Update, Exists, the polls, a Delete failing at its patch, its wait or its
\* Delete call) leaves the identity as it was.
C18_IdentityChanges ==
    [][(id' # id /\ ~Imports) =>
         \/ /\ id = ""
            /\ ret'.op = "Create"
            /\ calls'[1].api = "Create"
            /\ calls'[1].err = NilErr
            /\ id' = buildId([namespace |-> calls'[1].namespace,
                              name |-> calls'[1].name])
         \/ /\ id' = ""
            /\ ret' \in {Returned("Delete", NilErr), Returned("RoleDelete", NilErr)}
            /\ calls'[Len(calls')].api \in {"Delete", "RoleDelete"}
            /\ calls'[Len(calls')].err = NilErr]_vars

\* Delete of a role has cleared the identity after its Delete call
\* succeeded.
C18_Witness ==
    /\ resource = "kubernetes_role"
    /\ ret = Returned("RoleDelete", NilErr)
    /\ calls[1].api = "RoleDelete"
    /\ calls[1].err = NilErr
    /\ id = ""

\* C19: An operation that parses the stored identity (Read, Update, Delete
\* and Exists of the deployment, Delete and Exists of the role) and cannot
\* split it into namespace and name returns an error without making any
\* call.
C19_NoCallOnBadIdentity ==
    ( /\ ret.done
      /\ ret.op \in {"Read", "Update", "Delete", "Exists", "RoleDelete", "RoleExists"}
      /\ id # ""
      /\ idParts(id).err # NilErr ) =>
        /\ calls = << >>
        /\ ret.err # NilErr

-----------------------------------------------------------------------------
(* Properties of the state upgrader, checked under SpecMigrate *)

Before == migCall.before.Attributes
After  == is.Attributes

\* the upgrader was called with version v on a record that is not empty
Upgraded(v) ==
    /\ migCall.done
    /\ migCall.v = v
    /\ migCall.before # EmptyState

\* C4: One call of the upgrader on a non-empty record of version 0 or 1
\* applies every step up to the latest version: the record comes back with
\* spec.0.paused and spec.0.progress_deadline_seconds, and for version 0
\* with the template keys relocated.
C4_AllStepsApplied ==
    \A v \in 0..LatestStep :
        Upgraded(v) =>
            /\ migCall.err = Nil
            /\ "spec.0.paused" \in DOMAIN After
            /\ "spec.0.progress_deadline_seconds" \in DOMAIN After
            /\ v = 0 => "spec.0.template.0.container.0.image" \notin DOMAIN After

\* C5 as stated: the upgrader called with the latest version returns the
\* record unchanged and does not fail.
C5_LatestIsNoOp ==
    (migCall.done /\ migCall.v = SchemaVersion) =>
        /\ is = migCall.before
        /\ migCall.err = Nil

\* C5, amended: the upgrader called with the latest version returns the
\* record unchanged; it returns no error for an empty record and the
\* unexpected-schema-version error for any other.
C5_LatestUnchanged ==
    (migCall.done /\ migCall.v = SchemaVersion) =>
        /\ is = migCall.before
        /\ migCall.before = EmptyState => migCall.err = Nil
        /\ migCall.before # EmptyState => migCall.err = UnexpectedSchemaVersion

\* A record in the shape of version 2 came back unchanged, with the error.
C5_Witness ==
    /\ Upgraded(SchemaVersion)
    /\ {"spec.0.paused", "spec.0.progress_deadline_seconds"} \subseteq DOMAIN Before
    /\ is = migCall.before
    /\ migCall.err = UnexpectedSchemaVersion

\* C6: If a version-0 record holds a value at metadata.0.name, the V0toV1
\* step leaves exactly that value there, whatever the record holds at name.
C6_NameNoClobber ==
    (Upgraded(0) /\ "metadata.0.name" \in DOMAIN Before) =>
        /\ "metadata.0.name" \in DOMAIN After
        /\ After["metadata.0.name"] = Before["metadata.0.name"]

\* The record held different values at name and at metadata.0.name.
C6_Witness ==
    /\ Upgraded(0)
    /\ {"name", "metadata.0.name"} \subseteq DOMAIN Before
    /\ Before["name"] # Before["metadata.0.name"]
    /\ After["metadata.0.name"] = Before["metadata.0.name"]

\* the keys of a record the V0toV1 step takes for the name
NameKeys(A) == {k \in DOMAIN A : HasPrefix(k, "name")}

\* C7 as stated: after the migration of a version-0 record with a value at
\* name, the value is at metadata.0.name and the record holds nothing at
\* name.
C7_NameMoved ==
    (Upgraded(0) /\ "name" \in DOMAIN Before) =>
        /\ "name" \notin DOMAIN After
        /\ "metadata.0.name" \in DOMAIN After
        /\ After["metadata.0.name"] = Before["name"]

\* C7, amended: for a version-0 record with a value at name and none at
\* metadata.0.name, after the migration the record holds nothing at name and
\* metadata.0.name holds the value of one of the keys that began with
\* "name", that of name itself when it is the only one; when the record
\* already held a value at metadata.0.name, the rename is skipped and both
\* keys keep their values.
C7_NameMovedUnlessHeld ==
    (Upgraded(0) /\ "name" \in DOMAIN Before) =>
        IF "metadata.0.name" \in DOMAIN Before
        THEN /\ {"name", "metadata.0.name"} \subseteq DOMAIN After
             /\ After["name"] = Before["name"]
             /\ After["metadata.0.name"] = Before["metadata.0.name"]
        ELSE /\ "name" \notin DOMAIN After
             /\ "metadata.0.name" \in DOMAIN After
             /\ After["metadata.0.name"] \in {Before[k] : k \in NameKeys(Before)}
             /\ NameKeys(Before) = {"name"} =>
                    After["metadata.0.name"] = Before["name"]

\* The value at name moved to metadata.0.name.
C7_Witness ==
    /\ Upgraded(0)
    /\ "name" \in DOMAIN Before
    /\ "metadata.0.name" \notin DOMAIN Before
    /\ "name" \notin DOMAIN After
    /\ After["metadata.0.name"] = Before["name"]

\* C8: The upgrader returns an empty record unchanged and without error for
\* every version, also one no step is registered for.
C8_EmptyUnchanged ==
    (migCall.done /\ migCall.before = EmptyState) =>
        /\ is = EmptyState
        /\ migCall.err = Nil

\* The upgrader was called on the empty record with a version beyond the
\* schema version.
C8_Witness ==
    /\ migCall.done
    /\ migCall.before = EmptyState
    /\ migCall.v > SchemaVersion
    /\ is = EmptyState
    /\ migCall.err = Nil

\* C9: On a non-empty record the upgrader fails with the unexpected-version
\* error exactly when the version exceeds the latest registered step, and
\* then leaves the attributes unchanged.
C9_UnknownVersion ==
    \A v \in Versions :
        Upgraded(v) =>
            /\ migCall.err = UnexpectedSchemaVersion <=> v > LatestStep
            /\ migCall.err = UnexpectedSchemaVersion => After = Before

\* The upgrader refused a version beyond the schema version.
C9_Witness ==
    /\ Upgraded(MaxVersion)
    /\ migCall.err = UnexpectedSchemaVersion
    /\ After = Before

\* C15: The V0toV1 step leaves every value the record held at a key
\* spec.0.template.0.spec.0.<x>, a destination of its relocation of the
\* template keys, as it was.
C15_RelocationNoClobber ==
    Upgraded(0) =>
        \A k \in DOMAIN Before :
            HasPrefix(k, "spec.0.template.0.spec.0.") =>
                /\ k \in DOMAIN After
                /\ After[k] = Before[k]

\* C20: The V0toV1 step is deterministic: the record it returns is the one
\* it returns for every order in which the range loop can visit the
\* attributes of the record.
C20_OrderIndependent ==
    Upgraded(0) =>
        \A order \in Orders(DOMAIN Before) :
            migrateStateV0toV1(migCall.before, order).is = is

=============================================================================
